---------------------------- MODULE Spec2Model ----------------------------
(***************************************************************************)
(* VteFileStream (src/vtestream-file.h): a byte stream kept in two         *)
(* temporary files, fd[0] for the write head and fd[1] for the last page.  *)
(* A file is a sequence of bytes; a descriptor is the index of its file in *)
(* `files`, and 0 is the "no descriptor yet" value the code tests with     *)
(* !fd.  The kernel's file position of every descriptor is `pos`.          *)
(***************************************************************************)
EXTENDS Integers, Sequences, FiniteSets, TLC

\* ------------------------------------------------------------- bounds
\* Largest logical offset the model lets head, a reset base or a truncation
\* point take.
MaxOff == 2
\* Longest data passed to one append.
MaxLen == 1
\* Most descriptors _vte_mkstemp hands out before the model stops allocating.
MaxFiles == 3
\* Largest number of bytes a failing sink accepts before it reports an error.
MaxSink == 1
\* Most pwrite calls one _xpwrite makes in the model.
MaxTries == 2

\* gsize arithmetic is modulo 2^64; TLC's integers are 32 bits wide, so the
\* modulus is represented by 2^30, far above every offset of the model.
GSizeMod == 1073741824

Byte == {"a", "b"}
\* The byte a hole of a sparse file reads as.
NUL == "nul"
\* The ghost's mark for an offset below head that no append ever wrote.
Gap == "gap"
\* The capacity of a sink that never fails.
Unlimited == GSizeMod

Min(a, b) == IF a <= b THEN a ELSE b
Max(a, b) == IF a >= b THEN a ELSE b

SeqsUpTo(S, n) == UNION {[1..m -> S] : m \in 0..n}
Data == SeqsUpTo(Byte, MaxLen)
\* The base offsets passed to reset.
Bases == {0, 1}
SinkCaps == (0..MaxSink) \cup {Unlimited}

\* What one pwrite call returns: the number of bytes written, or -1 with errno.
Errnos == {"EINTR", "EINVAL", "ENOSPC"}
PwriteOutcomes ==
    {[ret |-> n, errno |-> "none"] : n \in 0..MaxLen}
        \cup {[ret |-> -1, errno |-> e] : e \in Errnos}
\* The outcomes of the successive pwrite calls of one _xpwrite.
OutcomeSeqs == SeqsUpTo(PwriteOutcomes, MaxTries)

\* The concrete trace of the worked example: three pages of four bytes.
TraceData == { <<"A","A","A","A">>, <<"B","B","B","B">>, <<"C","C","C","C">> }
TraceOps == << <<"append", <<"A","A","A","A">> >>, <<"new_page", <<>> >>,
               <<"append", <<"B","B","B","B">> >>, <<"new_page", <<>> >>,
               <<"append", <<"C","C","C","C">> >> >>
\* Largest head the trace specification lets the stream reach.
TraceMaxOff == 12

VARIABLES
    fd,        \* fd[0], fd[1]: descriptors, 0 when not allocated
    offset,    \* offset[0], offset[1]: logical offset at which each file starts
    head,      \* logical offset of the write head
    files,     \* files[f]: contents of the file behind descriptor f
    pos,       \* pos[f]: file position of descriptor f (lseek, read)
    aborted,   \* the process died on a failed g_assert
    last,      \* ghost: the latest call and what it returned
    expect,    \* ghost: the bytes appended at [offset[1], head), oldest first
    beyond,    \* ghost: a truncate past head was called since the last reset
    fresh,     \* ghost: base of the latest reset while no byte was appended since, else -1
    step       \* ghost: how much of TraceOps the calls so far spell, -1 if they do not

vars == <<fd, offset, head, files, pos, aborted, last, expect, beyond, fresh, step>>

\* The VteFileStream structure together with the files behind it.
Stream == [fd |-> fd, offset |-> offset, head |-> head, files |-> files, pos |-> pos]

GSub(a, b) == (a - b + GSizeMod) % GSizeMod
GAdd(a, b) == (a + b) % GSizeMod

\* ------------------------------------------------------ I/O primitives
Resize(f, n) ==
    IF n <= Len(f) THEN SubSeq(f, 1, n)
    ELSE f \o [i \in 1..(n - Len(f)) |-> NUL]

\* _xtruncate: ftruncate, nothing when there is no descriptor.
xtruncate(fs, f, n) ==
    IF f = 0 THEN fs ELSE [fs EXCEPT ![f] = Resize(@, n)]

\* _xpread: the bytes read, fewer than len at end of file.
xpread(fs, f, len, off) ==
    IF len > 0 /\ f = 0 THEN <<>>
    ELSE IF len = 0 THEN <<>>
    ELSE IF off >= Len(fs[f]) THEN <<>>
    ELSE SubSeq(fs[f], off + 1, Min(off + len, Len(fs[f])))

\* g_assert (fd || !len) at the top of _xpwrite.
xpwrite_assert(f, len) == f # 0 \/ len = 0

\* _xpwrite when every pwrite succeeds: data lands at off, a hole before it
\* reads as NUL, bytes of the file after the written range stay.
xpwrite(fs, f, data, off) ==
    IF Len(data) = 0 THEN fs
    ELSE LET old == fs[f]
             rest == IF Len(old) > off + Len(data)
                     THEN SubSeq(old, off + Len(data) + 1, Len(old))
                     ELSE <<>>
         IN [fs EXCEPT ![f] = Resize(old, off) \o data \o rest]

\* Mutant: the EINVAL branch forgets to set `truncated`.
RECURSIVE xpwrite_loop_forgets(_, _, _, _, _, _, _)
xpwrite_loop_forgets(fs, f, data, off, truncated, outs, acc) ==
    IF Len(data) = 0 THEN [acc EXCEPT !.files = fs, !.done = TRUE]
    ELSE IF outs = <<>> THEN [acc EXCEPT !.files = fs]
    ELSE LET o == Head(outs)
             a1 == [acc EXCEPT !.calls = @ + 1]
         IN IF o.ret > Len(data) THEN [acc EXCEPT !.files = fs, !.valid = FALSE]
            ELSE IF o.ret = -1
            THEN IF o.errno = "EINTR"
                 THEN xpwrite_loop_forgets(fs, f, data, off, truncated, Tail(outs), a1)
                 ELSE IF o.errno = "EINVAL" /\ ~truncated
                 THEN xpwrite_loop_forgets(xtruncate(fs, f, off), f, data, off, truncated,
                                           Tail(outs), [a1 EXCEPT !.ntrunc = @ + 1])
                 ELSE [a1 EXCEPT !.files = fs, !.done = TRUE]
            ELSE IF o.ret = 0 THEN [a1 EXCEPT !.files = fs, !.done = TRUE]
            ELSE xpwrite_loop_forgets(xpwrite(fs, f, SubSeq(data, 1, o.ret), off), f,
                                      SubSeq(data, o.ret + 1, Len(data)), off + o.ret,
                                      truncated, Tail(outs),
                                      [a1 EXCEPT !.written = @ + o.ret])

\* The while loop of _xpwrite, one iteration per outcome of outs.  acc counts
\* the pwrite calls made, the _xtruncate calls made and the bytes written;
\* done: the loop was left; valid: no pwrite returned more than it was asked
\* to write.
RECURSIVE xpwrite_loop(_, _, _, _, _, _, _)
xpwrite_loop(fs, f, data, off, truncated, outs, acc) ==
    IF Len(data) = 0 THEN [acc EXCEPT !.files = fs, !.done = TRUE]
    ELSE IF outs = <<>> THEN [acc EXCEPT !.files = fs]
    ELSE LET o == Head(outs)
             a1 == [acc EXCEPT !.calls = @ + 1]
         IN IF o.ret > Len(data) THEN [acc EXCEPT !.files = fs, !.valid = FALSE]
            ELSE IF o.ret = -1
            THEN IF o.errno = "EINTR"
                 THEN xpwrite_loop(fs, f, data, off, truncated, Tail(outs), a1)
                 ELSE IF o.errno = "EINVAL" /\ ~truncated
                 THEN xpwrite_loop(xtruncate(fs, f, off), f, data, off, TRUE,
                                   Tail(outs), [a1 EXCEPT !.ntrunc = @ + 1])
                 ELSE [a1 EXCEPT !.files = fs, !.done = TRUE]
            ELSE IF o.ret = 0 THEN [a1 EXCEPT !.files = fs, !.done = TRUE]
            ELSE xpwrite_loop(xpwrite(fs, f, SubSeq(data, 1, o.ret), off), f,
                              SubSeq(data, o.ret + 1, Len(data)), off + o.ret,
                              truncated, Tail(outs),
                              [a1 EXCEPT !.written = @ + o.ret])

\* _xpwrite with the pwrite calls returning outs: the files it leaves and
\* what the loop did.
xpwrite_outcomes(fs, f, data, off, outs) ==
    xpwrite_loop(fs, f, data, off, FALSE, outs,
                 [files |-> fs, done |-> FALSE, valid |-> TRUE,
                  calls |-> 0, ntrunc |-> 0, written |-> 0])

\* g_output_stream_splice from a descriptor at position p into a sink that
\* accepts cap more bytes: everything up to end of file is read (the files of
\* the model are shorter than one splice buffer); the sink fails on the first
\* byte it cannot take.
Splice(file, p, cap) ==
    LET avail == IF p >= Len(file) THEN <<>> ELSE SubSeq(file, p + 1, Len(file))
    IN IF Len(avail) <= cap
       THEN [ok |-> TRUE, out |-> avail, pos |-> Max(p, Len(file)),
             cap |-> cap - Len(avail)]
       ELSE [ok |-> FALSE, out |-> SubSeq(avail, 1, cap), pos |-> Len(file), cap |-> 0]

\* lseek (fd, p, SEEK_SET): descriptor 0 is not a file of the stream.
lseek(ps, f, p) == IF f = 0 THEN ps ELSE [ps EXCEPT ![f] = p]

\* _xwrite_contents: no descriptor, nothing copied and success; else the file
\* is copied from the descriptor's position on.
xwrite_contents(fs, ps, f, cap) ==
    IF f = 0 THEN [ok |-> TRUE, out |-> <<>>, pos |-> ps, cap |-> cap]
    ELSE LET r == Splice(fs[f], ps[f], cap)
         IN [ok |-> r.ok, out |-> r.out, pos |-> [ps EXCEPT ![f] = r.pos], cap |-> r.cap]

\* ------------------------------------------------------- VteFileStream
\* _vte_file_stream_finalize: the descriptors it closes, in order.
finalize(s) ==
    (IF s.fd[0] # 0 THEN <<s.fd[0]>> ELSE <<>>)
        \o (IF s.fd[1] # 0 THEN <<s.fd[1]>> ELSE <<>>)

\* _vte_mkstemp: a new empty file and its descriptor.
mkstemp(s) == Len(s.files) + 1

\* _vte_file_stream_ensure_fd0; ok is whether _vte_mkstemp succeeds.
ensure_fd0(s, ok) ==
    IF s.fd[0] # 0 THEN s
    ELSE IF ~ok THEN s
    ELSE [s EXCEPT !.fd[0] = mkstemp(s),
                   !.files = Append(@, <<>>),
                   !.pos = Append(@, 0)]

\* Mutant: reset forgets the last page's file.
reset_keeps_prev(s, off) ==
    LET f1 == IF s.fd[0] # 0 THEN xtruncate(s.files, s.fd[0], 0) ELSE s.files
    IN [s EXCEPT !.files = f1,
                 !.head = off,
                 !.offset = [i \in 0..1 |-> off]]

\* _vte_file_stream_reset
reset(s, off) ==
    LET f1 == IF s.fd[0] # 0 THEN xtruncate(s.files, s.fd[0], 0) ELSE s.files
        f2 == IF s.fd[1] # 0 THEN xtruncate(f1, s.fd[1], 0) ELSE f1
    IN [s EXCEPT !.files = f2,
                 !.head = off,
                 !.offset = [i \in 0..1 |-> off]]

\* _vte_file_stream_append after ensure_fd0, when the assertion of _xpwrite holds.
append_write(s, data) ==
    [s EXCEPT !.files = xpwrite(s.files, s.fd[0], data, GSub(s.head, s.offset[0])),
              !.head = GAdd(s.head, Len(data))]

\* _vte_file_stream_append
append(s, data, ok) == append_write(ensure_fd0(s, ok), data)

\* Mutant: head advances by the bytes that reached the file.
append_outcomes_counts_written(s, data, outs) ==
    LET s1 == ensure_fd0(s, TRUE)
        r == xpwrite_outcomes(s1.files, s1.fd[0], data, GSub(s1.head, s1.offset[0]), outs)
    IN [s1 EXCEPT !.files = r.files, !.head = GAdd(s1.head, r.written)]

\* _vte_file_stream_append with the pwrite calls of _xpwrite returning outs
\* (_vte_mkstemp succeeds).
append_outcomes(s, data, outs) ==
    LET s1 == ensure_fd0(s, TRUE)
        r == xpwrite_outcomes(s1.files, s1.fd[0], data, GSub(s1.head, s1.offset[0]), outs)
    IN [s1 EXCEPT !.files = r.files, !.head = GAdd(s1.head, Len(data))]

\* Mutant: the second pread starts where the request started, not where the
\* first pread stopped.
read_no_advance(s, off, len) ==
    IF off < s.offset[1] THEN [ok |-> FALSE, data |-> <<>>]
    ELSE LET inprev == off < s.offset[0]
             r1 == IF inprev
                   THEN xpread(s.files, s.fd[1], len, GSub(off, s.offset[1]))
                   ELSE <<>>
             len2 == len - Len(r1)
         IN IF inprev /\ len2 = 0 THEN [ok |-> TRUE, data |-> r1]
            ELSE LET r2 == xpread(s.files, s.fd[0], len2, GSub(off, s.offset[0]))
                 IN [ok |-> len2 - Len(r2) = 0, data |-> r1 \o r2]

\* _vte_file_stream_read: the result and the bytes stored into the buffer.
read(s, off, len) ==
    IF off < s.offset[1] THEN [ok |-> FALSE, data |-> <<>>]
    ELSE LET inprev == off < s.offset[0]
             r1 == IF inprev
                   THEN xpread(s.files, s.fd[1], len, GSub(off, s.offset[1]))
                   ELSE <<>>
             off2 == GAdd(off, Len(r1))
             len2 == len - Len(r1)
         IN IF inprev /\ len2 = 0 THEN [ok |-> TRUE, data |-> r1]
            ELSE LET r2 == xpread(s.files, s.fd[0], len2, GSub(off2, s.offset[0]))
                 IN [ok |-> len2 - Len(r2) = 0, data |-> r1 \o r2]

\* Mutant: the swap copies fd[1] into both slots.
swap_fds_dup(s) == [s EXCEPT !.fd = [i \in 0..1 |-> s.fd[1]]]

\* _vte_file_stream_swap_fds
swap_fds(s) == [s EXCEPT !.fd = [i \in 0..1 |-> s.fd[1 - i]]]

\* Mutant: the write head's offset is not moved back to the last page's.
truncate_keeps_offset0(s, off) ==
    LET s1 == IF off < s.offset[1]
              THEN [s EXCEPT !.files = xtruncate(s.files, s.fd[1], 0),
                             !.offset[1] = off]
              ELSE s
        s2 == IF off < s1.offset[0]
              THEN swap_fds([s1 EXCEPT !.files = xtruncate(s1.files, s1.fd[0], 0)])
              ELSE [s1 EXCEPT !.files = xtruncate(s1.files, s1.fd[0],
                                                  GSub(off, s1.offset[0]))]
    IN [s2 EXCEPT !.head = off]

\* Mutant: the descriptors are not swapped when the write head's file is dropped.
truncate_no_swap(s, off) ==
    LET s1 == IF off < s.offset[1]
              THEN [s EXCEPT !.files = xtruncate(s.files, s.fd[1], 0),
                             !.offset[1] = off]
              ELSE s
        s2 == IF off < s1.offset[0]
              THEN [s1 EXCEPT !.files = xtruncate(s1.files, s1.fd[0], 0),
                              !.offset[0] = s1.offset[1]]
              ELSE [s1 EXCEPT !.files = xtruncate(s1.files, s1.fd[0],
                                                  GSub(off, s1.offset[0]))]
    IN [s2 EXCEPT !.head = off]

\* Mutant: a truncation inside the write head's file empties the last page too.
truncate_also_prev(s, off) ==
    LET s1 == IF off < s.offset[1]
              THEN [s EXCEPT !.files = xtruncate(s.files, s.fd[1], 0),
                             !.offset[1] = off]
              ELSE s
        s2 == IF off < s1.offset[0]
              THEN swap_fds([s1 EXCEPT !.files = xtruncate(s1.files, s1.fd[0], 0),
                                       !.offset[0] = s1.offset[1]])
              ELSE [s1 EXCEPT !.files = xtruncate(
                                  xtruncate(s1.files, s1.fd[0], GSub(off, s1.offset[0])),
                                  s1.fd[1], 0)]
    IN [s2 EXCEPT !.head = off]

\* _vte_file_stream_truncate
truncate(s, off) ==
    LET s1 == IF off < s.offset[1]
              THEN [s EXCEPT !.files = xtruncate(s.files, s.fd[1], 0),
                             !.offset[1] = off]
              ELSE s
        s2 == IF off < s1.offset[0]
              THEN swap_fds([s1 EXCEPT !.files = xtruncate(s1.files, s1.fd[0], 0),
                                       !.offset[0] = s1.offset[1]])
              ELSE [s1 EXCEPT !.files = xtruncate(s1.files, s1.fd[0],
                                                  GSub(off, s1.offset[0]))]
    IN [s2 EXCEPT !.head = off]

\* Mutant: turning the page creates the new write head's file at once.
new_page_allocates(s) ==
    LET s1 == swap_fds([s EXCEPT !.offset = [i \in 0..1 |->
                                    IF i = 1 THEN s.offset[0] ELSE s.head]])
        s2 == ensure_fd0(s1, TRUE)
    IN [s2 EXCEPT !.files = xtruncate(s2.files, s2.fd[0], 0)]

\* Mutant: the descriptors are not swapped, the write head's file is emptied.
new_page_no_swap(s) ==
    LET s1 == [s EXCEPT !.offset = [i \in 0..1 |->
                            IF i = 1 THEN s.offset[0] ELSE s.head]]
    IN [s1 EXCEPT !.files = xtruncate(s1.files, s1.fd[0], 0)]

\* _vte_file_stream_new_page
new_page(s) ==
    LET s1 == swap_fds([s EXCEPT !.offset = [i \in 0..1 |->
                                    IF i = 1 THEN s.offset[0] ELSE s.head]])
    IN [s1 EXCEPT !.files = xtruncate(s1.files, s1.fd[0], 0)]

\* _vte_file_stream_head
stream_head(s) == s.head

\* Mutant: the files are copied from wherever their descriptors stand.
write_contents_no_seek(s, off, cap) ==
    IF off < s.offset[1] THEN [ok |-> FALSE, out |-> <<>>, pos |-> s.pos]
    ELSE LET inprev == off < s.offset[0]
             w1 == IF inprev
                   THEN xwrite_contents(s.files, s.pos, s.fd[1], cap)
                   ELSE [ok |-> TRUE, out |-> <<>>, pos |-> s.pos, cap |-> cap]
         IN IF ~w1.ok THEN [ok |-> FALSE, out |-> w1.out, pos |-> w1.pos]
            ELSE LET w2 == xwrite_contents(s.files, w1.pos, s.fd[0], w1.cap)
                 IN [ok |-> w2.ok, out |-> w1.out \o w2.out, pos |-> w2.pos]

\* Mutant: a failure while the last page is copied does not end the call.
write_contents_ignores_failure(s, off, cap) ==
    IF off < s.offset[1] THEN [ok |-> FALSE, out |-> <<>>, pos |-> s.pos]
    ELSE LET inprev == off < s.offset[0]
             w1 == IF inprev
                   THEN xwrite_contents(s.files,
                                        lseek(s.pos, s.fd[1], GSub(off, s.offset[1])),
                                        s.fd[1], cap)
                   ELSE [ok |-> TRUE, out |-> <<>>, pos |-> s.pos, cap |-> cap]
             off2 == IF inprev THEN s.offset[0] ELSE off
             w2 == xwrite_contents(s.files,
                                   lseek(w1.pos, s.fd[0], GSub(off2, s.offset[0])),
                                   s.fd[0], Unlimited)
         IN [ok |-> w1.ok /\ w2.ok, out |-> w1.out \o w2.out, pos |-> w2.pos]

\* Mutant: no check that the offset is still held.
write_contents_unguarded(s, off, cap) ==
    LET inprev == off < s.offset[0]
        w1 == IF inprev
              THEN xwrite_contents(s.files,
                                   lseek(s.pos, s.fd[1], GSub(off, s.offset[1])),
                                   s.fd[1], cap)
              ELSE [ok |-> TRUE, out |-> <<>>, pos |-> s.pos, cap |-> cap]
        off2 == IF inprev THEN s.offset[0] ELSE off
    IN IF ~w1.ok THEN [ok |-> FALSE, out |-> w1.out, pos |-> w1.pos]
       ELSE LET w2 == xwrite_contents(s.files,
                                      lseek(w1.pos, s.fd[0], GSub(off2, s.offset[0])),
                                      s.fd[0], w1.cap)
            IN [ok |-> w2.ok, out |-> w1.out \o w2.out, pos |-> w2.pos]

\* _vte_file_stream_write_contents into a sink that accepts cap bytes: the
\* result, the bytes the sink received, and the file positions it leaves.
write_contents(s, off, cap) ==
    IF off < s.offset[1] THEN [ok |-> FALSE, out |-> <<>>, pos |-> s.pos]
    ELSE LET inprev == off < s.offset[0]
             w1 == IF inprev
                   THEN xwrite_contents(s.files,
                                        lseek(s.pos, s.fd[1], GSub(off, s.offset[1])),
                                        s.fd[1], cap)
                   ELSE [ok |-> TRUE, out |-> <<>>, pos |-> s.pos, cap |-> cap]
             off2 == IF inprev THEN s.offset[0] ELSE off
         IN IF ~w1.ok THEN [ok |-> FALSE, out |-> w1.out, pos |-> w1.pos]
            ELSE LET w2 == xwrite_contents(s.files,
                                           lseek(w1.pos, s.fd[0], GSub(off2, s.offset[0])),
                                           s.fd[0], w1.cap)
                 IN [ok |-> w2.ok, out |-> w1.out \o w2.out, pos |-> w2.pos]

\* ------------------------------------------------------------- actions
Install(s) ==
    /\ fd' = s.fd
    /\ offset' = s.offset
    /\ head' = s.head
    /\ files' = s.files
    /\ pos' = s.pos

Call(op, arg, len, ok, out) ==
    [op |-> op, arg |-> arg, len |-> len, ok |-> ok, out |-> out]

\* The calls so far spell the first step + 1 entries of TraceOps, or stop doing so.
NextStep(op, data) ==
    IF step >= 0 /\ step < Len(TraceOps) /\ TraceOps[step + 1] = <<op, data>>
    THEN step + 1
    ELSE -1

\* _vte_file_stream_new (g_object_new zero-fills the instance).
Init ==
    /\ fd = [i \in 0..1 |-> 0]
    /\ offset = [i \in 0..1 |-> 0]
    /\ head = 0
    /\ files = <<>>
    /\ pos = <<>>
    /\ aborted = FALSE
    /\ last = Call("new", 0, 0, TRUE, <<>>)
    /\ expect = <<>>
    /\ beyond = FALSE
    /\ fresh = -1
    /\ step = 0

Reset(b) ==
    /\ ~aborted
    /\ Install(reset(Stream, b))
    /\ last' = Call("reset", 0, 0, TRUE, <<>>)
    /\ expect' = <<>>
    /\ beyond' = FALSE
    /\ fresh' = b
    /\ step' = -1
    /\ UNCHANGED aborted

AppendData(d, ok) ==
    /\ ~aborted
    /\ (fd[0] = 0 /\ ok) => Len(files) < MaxFiles
    /\ LET s1 == ensure_fd0(Stream, ok)
       IN IF xpwrite_assert(s1.fd[0], Len(d))
          THEN /\ Install(append_write(s1, d))
               /\ aborted' = FALSE
               /\ last' = Call("append", IF last.op = "truncate" THEN 1 ELSE 0,
                               0, TRUE, <<>>)
               /\ expect' = expect \o d
               /\ fresh' = IF Len(d) > 0 THEN -1 ELSE fresh
               /\ step' = NextStep("append", d)
          ELSE /\ Install(s1)
               /\ aborted' = TRUE
               /\ last' = Call("abort", 0, 0, FALSE, <<>>)
               /\ UNCHANGED <<expect, fresh, step>>
    /\ UNCHANGED beyond

\* append whose pwrite calls return outs; outs is exactly what the calls of
\* this _xpwrite returned.  last records the _xtruncate calls, the pwrite
\* calls that failed with EINVAL and whether all of d was written.
AppendWrites(d, outs) ==
    /\ ~aborted
    /\ fd[0] = 0 => Len(files) < MaxFiles
    /\ LET s1 == ensure_fd0(Stream, TRUE)
           r == xpwrite_outcomes(s1.files, s1.fd[0], d, GSub(s1.head, s1.offset[0]), outs)
       IN /\ r.valid /\ r.done /\ r.calls = Len(outs)
          /\ last' = Call("pwrite", r.ntrunc,
                          Cardinality({j \in 1..Len(outs) : outs[j].errno = "EINVAL"}),
                          r.written = Len(d), <<>>)
    /\ Install(append_outcomes(Stream, d, outs))
    /\ expect' = expect \o d
    /\ fresh' = IF Len(d) > 0 THEN -1 ELSE fresh
    /\ step' = -1
    /\ UNCHANGED <<aborted, beyond>>

Truncate(k) ==
    /\ ~aborted
    /\ Install(truncate(Stream, k))
    /\ last' = Call("truncate", 0, 0, TRUE, <<>>)
    /\ expect' = IF k < offset[1] THEN <<>>
                 ELSE IF k <= head THEN SubSeq(expect, 1, k - offset[1])
                 ELSE expect \o [i \in 1..(k - head) |-> Gap]
    /\ beyond' = (beyond \/ k > head)
    /\ step' = -1
    /\ UNCHANGED <<aborted, fresh>>

NewPage ==
    /\ ~aborted
    /\ Install(new_page(Stream))
    /\ last' = Call("new_page", 0, 0, TRUE, <<>>)
    /\ expect' = SubSeq(expect, offset[0] - offset[1] + 1, Len(expect))
    /\ step' = NextStep("new_page", <<>>)
    /\ UNCHANGED <<aborted, beyond, fresh>>

Read(o, n) ==
    /\ ~aborted
    /\ LET r == read(Stream, o, n)
       IN last' = Call("read", o, n, r.ok, r.data)
    /\ UNCHANGED <<fd, offset, head, files, pos, aborted, expect, beyond, fresh, step>>

WriteContents(o, cap) ==
    /\ ~aborted
    /\ LET r == write_contents(Stream, o, cap)
       IN /\ pos' = r.pos
          /\ last' = Call("write_contents", o, cap, r.ok, r.out)
    /\ UNCHANGED <<fd, offset, head, files, aborted, expect, beyond, fresh, step>>

\* The last unref of the stream: last.out records the descriptors closed.
Finalize ==
    /\ ~aborted
    /\ last.op # "finalize"
    /\ last' = Call("finalize", 0, 0, TRUE, finalize(Stream))
    /\ UNCHANGED <<fd, offset, head, files, pos, aborted, expect, beyond, fresh, step>>

\* Any caller: every argument, _vte_mkstemp failing or not.
Next ==
    \/ \E b \in Bases : Reset(b)
    \/ \E d \in Data, ok \in BOOLEAN :
          head + Len(d) <= MaxOff /\ (ok \/ fd[0] = 0) /\ AppendData(d, ok)
    \/ \E k \in 0..MaxOff : Truncate(k)
    \/ NewPage
    \/ \E o \in 0..MaxOff, n \in 1..MaxOff : o + n <= MaxOff /\ Read(o, n)

Spec == Init /\ [][Next]_vars

\* A caller that only resets, appends and turns pages; _vte_mkstemp succeeds.
NextAppend ==
    \/ \E b \in Bases : Reset(b)
    \/ \E d \in Data : head + Len(d) <= MaxOff /\ AppendData(d, TRUE)
    \/ NewPage
    \/ \E o \in 0..MaxOff, n \in 1..MaxOff : o + n <= MaxOff /\ Read(o, n)

AppendSpec == Init /\ [][NextAppend]_vars

\* A caller that never truncates past head and exports the stream;
\* _vte_mkstemp succeeds.
NextExport ==
    \/ \E b \in Bases : Reset(b)
    \/ \E d \in Data : head + Len(d) <= MaxOff /\ AppendData(d, TRUE)
    \/ \E k \in 0..MaxOff : k <= head /\ Truncate(k)
    \/ NewPage
    \/ \E o \in 0..MaxOff : Read(o, 1)
    \/ \E o \in 0..MaxOff, cap \in SinkCaps : WriteContents(o, cap)

ExportSpec == Init /\ [][NextExport]_vars

\* The stream driven with the pages of the worked example.
NextTrace ==
    \/ \E d \in TraceData : head + Len(d) <= TraceMaxOff /\ AppendData(d, TRUE)
    \/ Reset(0)
    \/ NewPage
    \/ \E o \in 0..TraceMaxOff : o % 4 = 0 /\ Read(o, 4)

TraceSpec == Init /\ [][NextTrace]_vars

\* A caller whose writes fail in every way pwrite can fail.
NextWrite ==
    \/ \E b \in Bases : Reset(b)
    \/ \E d \in Data, outs \in OutcomeSeqs :
          head + Len(d) <= MaxOff /\ AppendWrites(d, outs)
    \/ NewPage

WriteSpec == Init /\ [][NextWrite]_vars

\* A caller that truncates only to points of [offset[1], head]; _vte_mkstemp
\* and every write succeed.
NextRange ==
    \/ \E b \in Bases : Reset(b)
    \/ \E d \in Data : head + Len(d) <= MaxOff /\ AppendData(d, TRUE)
    \/ \E k \in 0..MaxOff : offset[1] <= k /\ k <= head /\ Truncate(k)
    \/ NewPage
    \/ \E o \in 0..MaxOff, n \in 1..MaxOff : o + n <= MaxOff /\ Read(o, n)

RangeSpec == Init /\ [][NextRange]_vars

\* The life of a stream: any call with any argument until it is finalized,
\* and none after.
NextLife ==
    \/ last.op # "finalize" /\ \E b \in Bases : Reset(b)
    \/ last.op # "finalize" /\ \E d \in Data, ok \in BOOLEAN :
          head + Len(d) <= MaxOff /\ (ok \/ fd[0] = 0) /\ AppendData(d, ok)
    \/ last.op # "finalize" /\ \E k \in 0..MaxOff : Truncate(k)
    \/ last.op # "finalize" /\ NewPage
    \/ Finalize

LifeSpec == Init /\ [][NextLife]_vars

\* The bytes the appends put at logical offsets [o, o + n).
Expected(o, n) == SubSeq(expect, o - offset[1] + 1, o - offset[1] + n)

\* ---------------------------------------------------------------- C1
\* C1: in every state reachable by reset, append, truncate and new_page with
\* arbitrary arguments, offset[1] <= offset[0] <= head.
C1_OffsetsOrdered == offset[1] <= offset[0] /\ offset[0] <= head

C1_Witness == offset[1] < offset[0] /\ offset[0] < head /\ beyond /\ fd[1] # 0

\* ---------------------------------------------------------------- C2
\* C2: with only resets, appends and page turns, every read of a range inside
\* [offset[1], head) succeeds and returns the bytes appended at those offsets,
\* also across the boundary between the two files.
C2_AppendedBytesReadBack ==
    \A o \in 0..MaxOff, n \in 0..MaxOff :
        (offset[1] <= o /\ o + n <= head)
            => read(Stream, o, n) = [ok |-> TRUE, data |-> Expected(o, n)]

C2_Witness ==
    /\ last.op = "read" /\ last.ok
    /\ offset[1] <= last.arg /\ last.arg < offset[0]
    /\ last.arg + last.len > offset[0] /\ last.arg + last.len <= head
    /\ last.out = Expected(last.arg, last.len)
    /\ last.out[1] # last.out[2]

\* ---------------------------------------------------------------- C3
\* C3 as stated: after append AAAA, new_page, append BBBB, new_page, append
\* CCCC, head is 12, offset[1] is 8, read(4, 4) fails and read(8, 4) returns
\* CCCC.
C3_TraceAsStated ==
    step = Len(TraceOps) =>
        /\ head = 12
        /\ offset[1] = 8
        /\ ~read(Stream, 4, 4).ok
        /\ read(Stream, 8, 4) = [ok |-> TRUE, data |-> <<"C","C","C","C">>]

\* C3 amended: after that trace head is 12 and offset[1] is 4 (the page of
\* BBBB is the last page); read(0, 4) fails, read(4, 4) returns BBBB and
\* read(8, 4) returns CCCC.
C3_TraceAmended ==
    step = Len(TraceOps) =>
        /\ head = 12
        /\ offset[1] = 4
        /\ offset[0] = 8
        /\ ~read(Stream, 0, 4).ok
        /\ read(Stream, 4, 4) = [ok |-> TRUE, data |-> <<"B","B","B","B">>]
        /\ read(Stream, 8, 4) = [ok |-> TRUE, data |-> <<"C","C","C","C">>]

C3_Witness ==
    /\ step = Len(TraceOps)
    /\ last = Call("read", 4, 4, TRUE, <<"B","B","B","B">>)

\* ---------------------------------------------------------------- C4
\* C4: in every state, for every offset below offset[1], read fails for every
\* length and stores nothing, and write_contents fails and hands the sink
\* nothing.
C4_BelowPreviousFails ==
    \A o \in 0..MaxOff :
        o < offset[1] =>
            /\ \A n \in 0..MaxOff :
                   read(Stream, o, n) = [ok |-> FALSE, data |-> <<>>]
            /\ \A cap \in SinkCaps :
                   write_contents(Stream, o, cap)
                       = [ok |-> FALSE, out |-> <<>>, pos |-> pos]

C4_Witness ==
    /\ last.op = "write_contents" /\ last.arg < offset[1]
    /\ last.len = Unlimited /\ ~last.ok /\ last.out = <<>>
    /\ fd[0] # 0 /\ fd[1] # 0
    /\ Len(files[fd[0]]) + Len(files[fd[1]]) > 0

\* ---------------------------------------------------------------- C5
\* What C5 says of one new_page step: no read below the old offset[0] (the old
\* last page and everything before it) succeeds, and every read of a range
\* inside the new [offset[1], head) succeeds.
C5_RotateStep ==
    /\ \A o \in 0..MaxOff, n \in 0..MaxOff :
           o < offset[0] => ~read(Stream', o, n).ok
    /\ \A o \in 0..MaxOff, n \in 0..MaxOff :
           (offset'[1] <= o /\ o + n <= head') => read(Stream', o, n).ok

C6_ExportStopsAtHead ==
    \A o \in 0..MaxOff :
        (offset[1] <= o /\ o <= head) =>
            LET w == write_contents(Stream, o, Unlimited)
            IN w.ok /\ w.out = Expected(o, head - o)

\* ---------------------------------------------------------------- C7
\* C7: for every k in [offset[1], head] and data d, truncate(k) then append(d)
\* leaves head = k + len(d), every byte of [offset[1], k) that could be read
\* before is read back unchanged, and read(k, len(d)) returns d.
C7_TruncateThenAppend ==
    \A k \in 0..MaxOff, d \in Data :
        (offset[1] <= k /\ k <= head) =>
            \A s2 \in {append(truncate(Stream, k), d, TRUE)} :
               /\ s2.head = k + Len(d)
               /\ \A o \in offset[1]..(k - 1) :
                      read(Stream, o, 1).ok => read(s2, o, 1) = read(Stream, o, 1)
               /\ read(s2, k, Len(d)) = [ok |-> TRUE, data |-> d]

\* An append that directly followed a truncate to a point with a byte before it.
C7_Witness ==
    /\ last.op = "append" /\ last.arg = 1
    /\ offset[1] < head /\ fd[0] # 0 /\ fd[1] # 0
    /\ read(Stream, offset[1], head - offset[1]).ok

\* ---------------------------------------------------------------- C8
\* C8: truncate(k) with offset[0] <= k <= head leaves the offsets, the
\* descriptors, the file positions and every file but the write head's as they
\* were, cuts the write head's file to k - offset[0] bytes, sets head to k, and
\* every read inside [offset[1], offset[0]) returns what it returned before.
C8_TruncateInCurrent ==
    [][\A k \in 0..MaxOff :
          (Truncate(k) /\ offset[0] <= k /\ k <= head) =>
              /\ offset' = offset /\ fd' = fd /\ pos' = pos /\ head' = k
              /\ Len(files') = Len(files)
              /\ \A f \in 1..Len(files) : f # fd[0] => files'[f] = files[f]
              /\ fd[0] # 0 =>
                     /\ Len(files'[fd[0]]) = k - offset[0]
                     /\ \A i \in 1..(k - offset[0]) :
                            i <= Len(files[fd[0]]) => files'[fd[0]][i] = files[fd[0]][i]
              /\ \A o \in 0..MaxOff, n \in 0..MaxOff :
                     (offset[1] <= o /\ o + n <= offset[0])
                         => read(Stream', o, n) = read(Stream, o, n)]_vars

C8_Witness ==
    /\ last.op = "truncate" /\ ~beyond
    /\ offset[1] < offset[0] /\ fd[0] # 0 /\ fd[1] # 0
    /\ Len(files[fd[1]]) > 0
    /\ Len(files[fd[0]]) = head - offset[0]

\* ---------------------------------------------------------------- C9
\* What C9 says of a reset(b) step: head and both offsets are b, both files
\* (if any) are empty.
C9_ResetStep ==
    \A b \in Bases :
        Reset(b) =>
            /\ head' = b /\ offset'[0] = b /\ offset'[1] = b
            /\ \A i \in 0..1 : fd'[i] # 0 => files'[fd'[i]] = <<>>

\* No read of one byte or more at or after the reset's base succeeds.
C9_NothingToRead ==
    \A o \in 0..MaxOff, n \in 1..MaxOff : o >= fresh => ~read(Stream, o, n).ok

\* C9 as stated: reset(k) leaves head = offset[0] = offset[1] = k and both
\* files empty, and until the next append of a byte no such read succeeds.
C9_ResetAsStated ==
    [][C9_ResetStep]_vars /\ [](fresh # -1 => C9_NothingToRead)

\* C9 amended: the same, until the next append of a byte or the next truncate
\* past head.
C9_ResetAmended ==
    [][C9_ResetStep]_vars /\ []((fresh # -1 /\ ~beyond) => C9_NothingToRead)

C9_Witness ==
    /\ fresh # -1 /\ ~beyond
    /\ last.op = "read" /\ last.arg >= fresh /\ last.len >= 1 /\ ~last.ok
    /\ fd[0] # 0 /\ fd[1] # 0

\* --------------------------------------------------------------- C10
\* C10: when _vte_mkstemp fails in an append of one byte or more, the append
\* returns without aborting and changes nothing.
C10_AllocFailureIsSilent ==
    [][\A d \in Data :
          (Len(d) >= 1 /\ fd[0] = 0 /\ AppendData(d, FALSE))
              => (~aborted' /\ Stream' = Stream)]_vars

\* --------------------------------------------------------------- C11
\* C11: when the write head's file exists, an append of d leaves head at
\* head + len(d), the offsets and the descriptors as they were, and does not
\* abort, whatever the pwrite calls of _xpwrite return (all written, fewer
\* bytes written, or the loop left on an error).  The step is an append of d
\* when last' is a pwrite record and d is what the ghost expect grew by.
C11_AppendAdvancesHead ==
    [][(last'.op = "pwrite" /\ fd[0] # 0) =>
          \E d \in Data :
              /\ expect' = expect \o d
              /\ head' = head + Len(d)
              /\ offset' = offset
              /\ fd' = fd
              /\ ~aborted']_vars

\* An append whose write gave up, on a file that already held a byte: head is
\* past the end of the file.
C11_Witness ==
    /\ last.op = "pwrite" /\ ~last.ok
    /\ fd[0] # 0 /\ Len(files[fd[0]]) >= 1
    /\ Len(files[fd[0]]) < head - offset[0]

\* --------------------------------------------------------------- C12
\* C12: in every state, for every offset and every sink, a second
\* write_contents called right after the first (the file positions being
\* where the first left them) returns the same result and hands the sink the
\* same bytes.
C12_ExportTwice ==
    \A o \in 0..MaxOff, cap \in SinkCaps :
        LET w1 == write_contents(Stream, o, cap)
            w2 == write_contents([Stream EXCEPT !.pos = w1.pos], o, cap)
        IN w2.ok = w1.ok /\ w2.out = w1.out

\* A write_contents that delivered bytes and left a descriptor past the start
\* of its file; the same call made now delivers the same bytes.
C12_Witness ==
    /\ last.op = "write_contents" /\ last.ok /\ Len(last.out) >= 1
    /\ fd[0] # 0 /\ pos[fd[0]] >= 1
    /\ write_contents(Stream, last.arg, last.len).ok
    /\ write_contents(Stream, last.arg, last.len).out = last.out

\* --------------------------------------------------------------- C13
\* C13: a new stream has no file and no descriptor; a step creates a file or
\* changes which descriptors the stream holds only if it is an append made
\* while fd[0] is 0, so reset, truncate, new_page, read and write_contents
\* never do.
C13_LazyAllocation ==
    /\ files = <<>> /\ fd[0] = 0 /\ fd[1] = 0
    /\ [][(Len(files') # Len(files) \/ {fd'[0], fd'[1]} # {fd[0], fd[1]}) =>
             /\ fd[0] = 0
             /\ \E d \in Data : AppendData(d, TRUE)
             /\ Len(files') = Len(files) + 1]_vars

\* The page was turned and the stream exported, and the write head still has
\* no file.
C13_Witness ==
    /\ last.op = "write_contents"
    /\ Len(files) = 1 /\ fd[0] = 0 /\ fd[1] = 1

\* --------------------------------------------------------------- C14
\* C14: truncate(k) with k < offset[0] leaves both offsets at the smaller of k
\* and the old offset[1] and head at k, swaps the two descriptors, and leaves
\* the file now behind fd[1] (if any) empty; when k is also below the old
\* offset[1] the file now behind fd[0] (if any) is empty too.
C14_TruncateBelowCurrent ==
    [][\A k \in 0..MaxOff :
          (Truncate(k) /\ k < offset[0]) =>
              /\ offset'[0] = Min(k, offset[1])
              /\ offset'[1] = Min(k, offset[1])
              /\ head' = k
              /\ fd'[0] = fd[1] /\ fd'[1] = fd[0]
              /\ Len(files') = Len(files)
              /\ fd'[1] # 0 => files'[fd'[1]] = <<>>
              /\ (k < offset[1] /\ fd'[0] # 0) => files'[fd'[0]] = <<>>]_vars

\* A truncate has just brought the last page's file back as the write head's:
\* only that truncate leaves the write head's file longer than head - offset[0].
C14_Witness ==
    /\ last.op = "truncate" /\ ~beyond
    /\ offset[0] = offset[1]
    /\ fd[0] # 0 /\ fd[1] # 0
    /\ files[fd[1]] = <<>>
    /\ Len(files[fd[0]]) > head - offset[0]

\* --------------------------------------------------------------- C15
\* The bytes of file f from position p on.
C15_From(f, p) ==
    IF f = 0 THEN <<>>
    ELSE IF p >= Len(files[f]) THEN <<>>
    ELSE SubSeq(files[f], p + 1, Len(files[f]))

\* C15: for an offset inside the last page, write_contents hands the sink the
\* last page's bytes first and the write head's after them; when the sink
\* fails before it took all of the last page's bytes, the call fails and the
\* sink got none of the write head's bytes.
C15_PreviousFirst ==
    \A o \in 0..MaxOff, cap \in SinkCaps :
        (offset[1] <= o /\ o < offset[0]) =>
            LET w == write_contents(Stream, o, cap)
                p == C15_From(fd[1], o - offset[1])
                c == C15_From(fd[0], 0)
            IN IF Len(p) > cap
               THEN ~w.ok /\ w.out = SubSeq(p, 1, cap)
               ELSE /\ w.out = p \o SubSeq(c, 1, Min(Len(c), cap - Len(p)))
                    /\ w.ok <=> Len(p) + Len(c) <= cap

\* A write_contents from inside the last page failed on a sink that took
\* fewer bytes than the last page held, while the write head's file held
\* bytes.
C15_Witness ==
    /\ last.op = "write_contents" /\ ~last.ok
    /\ offset[1] <= last.arg /\ last.arg < offset[0]
    /\ Len(C15_From(fd[1], last.arg - offset[1])) > last.len
    /\ Len(C15_From(fd[0], 0)) >= 1
    /\ Len(last.out) = last.len

\* --------------------------------------------------------------- C16
\* The bytes the first i pwrite calls wrote.
RECURSIVE C16_Written(_, _)
C16_Written(outs, i) ==
    IF i = 0 THEN 0
    ELSE C16_Written(outs, i - 1) + (IF outs[i].ret > 0 THEN outs[i].ret ELSE 0)

\* The EINVAL failures among the first i pwrite calls.
C16_Inval(outs, i) == Cardinality({j \in 1..i : outs[j].errno = "EINVAL"})

\* Call i is where C16 says the write ends: a zero-byte write, an error other
\* than EINTR and EINVAL, the second EINVAL, or the last byte written.
C16_StopsAt(d, outs, i) ==
    \/ outs[i].ret = 0
    \/ outs[i].ret = -1 /\ outs[i].errno \notin {"EINTR", "EINVAL"}
    \/ outs[i].errno = "EINVAL" /\ C16_Inval(outs, i) >= 2
    \/ C16_Written(outs, i) = Len(d)

C17_FirstRotateAsStated ==
    [][(NewPage /\ fd[0] # 0 /\ fd[1] = 0) => (fd'[0] # 0 /\ fd'[1] # 0)]_vars

\* C17 amended: that new_page creates no file; it leaves the old write head's
\* file as the last page's and fd[0] at 0, and the stream has both files only
\* after the next append, which creates the new write head's file.
C17_FirstRotateAmended ==
    [][(NewPage /\ fd[0] # 0 /\ fd[1] = 0) =>
          /\ fd'[0] = 0 /\ fd'[1] = fd[0]
          /\ Len(files') = Len(files)
          /\ \A d \in Data :
                 \A s2 \in {append(Stream', d, TRUE)} :
                     /\ s2.fd[1] = fd[0]
                     /\ s2.fd[0] # 0 /\ s2.fd[0] # s2.fd[1]
                     /\ Len(s2.files) = Len(files) + 1]_vars

\* The first page was just turned.
C17_Witness ==
    /\ last.op = "new_page"
    /\ Len(files) = 1 /\ fd[0] = 0 /\ fd[1] = 1
    /\ Len(files[fd[1]]) >= 1

\* --------------------------------------------------------------- C18
\* C18: after resets, appends, truncates to points of [offset[1], head] and
\* page turns, every read of a range inside [offset[1], head) succeeds and
\* returns the bytes last appended at its offsets, and every read of a range
\* that ends after head fails.
C18_ReadsAfterTruncate ==
    \A o \in 0..MaxOff, n \in 1..MaxOff :
        /\ (offset[1] <= o /\ o + n <= head)
               => read(Stream, o, n) = [ok |-> TRUE, data |-> Expected(o, n)]
        /\ o + n > head => ~read(Stream, o, n).ok

\* --------------------------------------------------------------- C19
\* The length of the file behind descriptor f, 0 when there is none.
C19_FileLen(f) == IF f = 0 THEN 0 ELSE Len(files[f])

\* C19: in every state reached by resets, appends, truncates to points of
\* [offset[1], head] and page turns, the write head's file is head - offset[0]
\* bytes long and the last page's file offset[0] - offset[1] bytes long.
C19_FileLengths ==
    /\ C19_FileLen(fd[0]) = head - offset[0]
    /\ C19_FileLen(fd[1]) = offset[0] - offset[1]

\* --------------------------------------------------------------- C20
\* C20: over any calls, at most two files are ever created; every file
\* created is behind fd[0] or fd[1]; when both descriptors are set they
\* differ; so finalize closes each file created exactly once and nothing else.
C20_TwoStores ==
    /\ Len(files) <= 2
    /\ \A f \in 1..Len(files) : f = fd[0] \/ f = fd[1]
    /\ (fd[0] # 0 /\ fd[1] # 0) => fd[0] # fd[1]
    /\ last.op = "finalize" =>
           /\ \A i \in 1..Len(last.out) : last.out[i] \in 1..Len(files)
           /\ \A f \in 1..Len(files) :
                  Cardinality({i \in 1..Len(last.out) : last.out[i] = f}) = 1

\* A stream with two pages, both files in use, was finalized.
C20_Witness ==
    /\ last.op = "finalize" /\ Len(last.out) = 2
    /\ Len(files) = 2
    /\ offset[1] < offset[0] /\ offset[0] < head

=============================================================================
